---- MODULE Spec2Model ----
(***************************************************************************)
(* Model of the mailbox poll loop of src/main.py (class EmailMonitor):      *)
(* connect_imap, check_emails, process_email, extract_verification_code,    *)
(* send_to_telegram and run, together with the IMAP server and the chat     *)
(* endpoint as a nondeterministic environment, and of the health server     *)
(* thread (EnhancedHealthHandler) that shares the metrics record with it.   *)
(*                                                                          *)
(* Spec is the poll loop; LiveSpec and InterruptSpec follow it with few     *)
(* arrivals, for its progress and for a KeyboardInterrupt; ExtractSpec      *)
(* calls extract_verification_code on a set of texts; MetricsSpec runs the  *)
(* poll loop and the health server over the metrics record; ResendSpec      *)
(* remembers the forwards whose mark-read raised, CoolSpec counts the       *)
(* cycles between two Cooling periods, and DrainSpec gives the loop a       *)
(* backlog and a server that stops failing.                                 *)
(*                                                                          *)
(* Text is modelled as a sequence of tokens.  A token is one character      *)
(* (a digit, a space, "#", ":") or an atomic piece of text that the         *)
(* regular expressions of the program only ever treat as a whole: a         *)
(* complete markup tag, the label text, or a run of other letters.          *)
(***************************************************************************)
EXTENDS Integers, Sequences, FiniteSets, TLC

\* ------------------------------------------------------------------------
\* Program constants (class Config)
\* ------------------------------------------------------------------------
MAX_ERROR_COUNT == 5

\* email_ids[-5:] in check_emails
FETCH_LIMIT == 5

\* ------------------------------------------------------------------------
\* Bounds of the model
\* ------------------------------------------------------------------------
\* number of messages that ever arrive in the mailbox
MaxMsgs == 6

\* number of configured destinations (len(self.chat_ids))
NumChats == 2

\* longest run of digits in the texts given to extract_verification_code
MaxRun == 9

\* number of messages that ever arrive where the loop is followed with few
\* arrivals (its progress, its interruption)
FewMsgs == 2

\* number of messages that ever arrive where the metrics are followed
MetricsMsgs == 1

\* number of cycles the poll loop starts where the metrics are followed
MaxChecks == 5

\* longest stretch of cycles followed without a Cooling
MaxSince == 8

\* largest backlog of unseen messages that arrives at once
MaxBacklog == 6

\* ------------------------------------------------------------------------
\* Tokens
\* ------------------------------------------------------------------------
Digits == {"0", "1", "2", "3", "4", "5", "6", "7", "8", "9"}

\* "YZM" stands for the label text U+9A8C U+8BC1 U+7801 ("verification code"
\* in Chinese), "Code" for the word Code in any letter case, "w" for a run of
\* other letters that no pattern mentions; "p" and "x" are the letters of the
\* unit px, in either case.
LabelTokens == {"YZM", "Code"}

\* complete markup tags; "<div#>" is an opening div tag whose attributes hold
\* a colour code with digits (style='color:#336699')
Tags == {"<p>", "</p>", "<div>", "</div>", "<div#>"}

DivOpenTags == {"<div>", "<div#>"}

TagsWithDigits == {"<div#>"}

\* the digits of the colour code inside "<div#>"
TagDigits == <<"3", "3", "6", "6", "9", "9">>

IsDigit(t) == t \in Digits

IsTag(t) == t \in Tags

\* \s
IsSpace(t) == t \in {" ", "\n"}

\* a token in which some character is a digit
HasDigit(t) == IsDigit(t) \/ t \in TagsWithDigits

\* \w: a token made of word characters
IsWord(t) == IsDigit(t) \/ t \in {"YZM", "Code", "w", "p", "x"}

None == <<>>

\* ------------------------------------------------------------------------
\* Helpers on token sequences
\* ------------------------------------------------------------------------
RECURSIVE DigitRun(_, _)
\* length of the maximal run of digits of s that starts at position i
DigitRun(s, i) ==
    IF i <= Len(s) /\ IsDigit(s[i]) THEN 1 + DigitRun(s, i + 1) ELSE 0

Min(a, b) == IF a <= b THEN a ELSE b

Max(a, b) == IF a >= b THEN a ELSE b

\* the least element of a non-empty set of integers
Least(S) == CHOOSE x \in S : \A y \in S : x <= y

\* text[:n]
Prefix(s, n) == SubSeq(s, 1, Min(Len(s), n))

\* str.isdigit() and 4 <= len(code) <= 8
Acceptable(code) ==
    /\ Len(code) >= 1
    /\ \A k \in 1..Len(code) : IsDigit(code[k])
    /\ 4 <= Len(code) /\ Len(code) <= 8

\* ------------------------------------------------------------------------
\* _clean_html_text
\* ------------------------------------------------------------------------
\* re.sub(r'<[^>]+>', ' ', text)
StripTags(s) == [k \in 1..Len(s) |-> IF IsTag(s[k]) THEN " " ELSE s[k]]

RECURSIVE StripColors(_)
\* re.sub(r'#\d{3,6}', ' ', cleaned): "#" and the 3 to 6 digits after it
StripColors(s) ==
    IF s = <<>> THEN <<>>
    ELSE IF s[1] = "#" /\ DigitRun(s, 2) >= 3
         THEN <<" ">> \o StripColors(SubSeq(s, 2 + Min(DigitRun(s, 2), 6), Len(s)))
         ELSE <<s[1]>> \o StripColors(Tail(s))

RECURSIVE CollapseSpaces(_)
\* re.sub(r'\s+', ' ', cleaned)
CollapseSpaces(s) ==
    IF s = <<>> THEN <<>>
    ELSE IF IsSpace(s[1])
         THEN IF Len(s) >= 2 /\ IsSpace(s[2])
              THEN CollapseSpaces(Tail(s))
              ELSE <<" ">> \o CollapseSpaces(Tail(s))
         ELSE <<s[1]>> \o CollapseSpaces(Tail(s))

RECURSIVE StripPx(_)
\* re.sub(r'\d+px', ' ', cleaned, flags=re.IGNORECASE)
StripPx(s) ==
    IF s = <<>> THEN <<>>
    ELSE LET n == DigitRun(s, 1)
         IN  IF n >= 1 /\ Len(s) >= n + 2 /\ s[n + 1] = "p" /\ s[n + 2] = "x"
             THEN <<" ">> \o StripPx(SubSeq(s, n + 3, Len(s)))
             ELSE IF n >= 1
                  THEN SubSeq(s, 1, n) \o StripPx(SubSeq(s, n + 1, Len(s)))
                  ELSE <<s[1]>> \o StripPx(Tail(s))

\* \b\d{4}[- ]\d{4}...\b with g groups of four digits matches at position i
CardAt(s, i, g) ==
    /\ i = 1 \/ ~IsWord(s[i - 1])
    /\ \A k \in 0..(g - 1) :
         /\ DigitRun(s, i + 5 * k) = 4
         /\ k < g - 1 => /\ i + 5 * k + 4 <= Len(s)
                         /\ s[i + 5 * k + 4] \in {"-", " "}
    /\ i + 5 * g - 1 > Len(s) \/ ~IsWord(s[i + 5 * g - 1])

RECURSIVE StripCardsFrom(_, _, _)
StripCardsFrom(s, i, g) ==
    IF i > Len(s) THEN <<>>
    ELSE IF CardAt(s, i, g)
         THEN <<" ">> \o StripCardsFrom(s, i + 5 * g - 1, g)
         ELSE <<s[i]>> \o StripCardsFrom(s, i + 1, g)

\* re.sub(r'\b\d{4}[- ]\d{4}[- ]\d{4}[- ]\d{4}\b', ' ', cleaned), then the
\* same with three groups and with two groups
StripCards(s) ==
    StripCardsFrom(StripCardsFrom(StripCardsFrom(s, 1, 4), 1, 3), 1, 2)

\* str.strip() of a text whose whitespace runs are already single spaces
Strip(s) ==
    LET a == IF s # <<>> /\ IsSpace(s[1]) THEN Tail(s) ELSE s
    IN  IF a # <<>> /\ IsSpace(a[Len(a)]) THEN SubSeq(a, 1, Len(a) - 1) ELSE a

\* The substitutions for rgb()/rgba(), CSS properties and numeric entities
\* rewrite text that the token alphabet of this model cannot spell, so they
\* are the identity here.
clean_html_text(text) ==
    IF text = <<>> THEN <<>>
    ELSE Strip(CollapseSpaces(StripCards(StripPx(StripColors(StripTags(text))))))

\* ------------------------------------------------------------------------
\* Config.CODE_PATTERNS, each as the capture of its leftmost match or None
\* ------------------------------------------------------------------------
\* positions after i, in order, of the tokens that are tags
NextTag(s, i) ==
    LET later == {k \in (i + 1)..Len(s) : IsTag(s[k])}
    IN  IF later = {} THEN 0 ELSE Least(later)

\* first position after i of a token holding a digit
NextDigitToken(s, i) ==
    LET later == {k \in (i + 1)..Len(s) : HasDigit(s[k])}
    IN  IF later = {} THEN 0 ELSE Least(later)

\* rule 1 anchored at position i:
\*   (?:YZM[^<]*</p>)[^<]*(?:<div[^>]*>)[^0-9]*(\d{6})
Pattern1At(s, i) ==
    LET p == NextTag(s, i)
        d == IF p = 0 THEN 0 ELSE NextTag(s, p)
        m == IF d = 0 THEN 0 ELSE NextDigitToken(s, d)
    IN  IF /\ s[i] = "YZM"
           /\ p # 0 /\ s[p] = "</p>"
           /\ d # 0 /\ s[d] \in DivOpenTags
           /\ m # 0 /\ (s[m] \in TagsWithDigits \/ DigitRun(s, m) >= 6)
        THEN IF s[m] \in TagsWithDigits THEN TagDigits ELSE SubSeq(s, m, m + 5)
        ELSE None

\* rule 2 anchored at position i:
\*   YZM[^<]*</p>\s*<div[^>]*>\s*(\d{6})\s*</div>
RECURSIVE SkipSpaces(_, _)
SkipSpaces(s, i) ==
    IF i <= Len(s) /\ IsSpace(s[i]) THEN SkipSpaces(s, i + 1) ELSE i

Pattern2At(s, i) ==
    LET p == NextTag(s, i)
        d == IF p = 0 THEN 0 ELSE SkipSpaces(s, p + 1)
        m == IF d = 0 THEN 0 ELSE SkipSpaces(s, d + 1)
        e == IF m = 0 THEN 0 ELSE SkipSpaces(s, m + 6)
    IN  IF /\ s[i] = "YZM"
           /\ p # 0 /\ s[p] = "</p>"
           /\ d <= Len(s) /\ s[d] \in DivOpenTags
           /\ DigitRun(s, m) >= 6
           /\ e <= Len(s) /\ s[e] = "</div>"
        THEN SubSeq(s, m, m + 5)
        ELSE None

\* rule 3 anchored at position i:
\*   (?:YZM|...|Code|CODE)[:\s]*(\d{4,8})
RECURSIVE SkipSeparators(_, _)
SkipSeparators(s, i) ==
    IF i <= Len(s) /\ (IsSpace(s[i]) \/ s[i] = ":")
    THEN SkipSeparators(s, i + 1) ELSE i

Pattern3At(s, i) ==
    LET m == SkipSeparators(s, i + 1)
    IN  IF s[i] \in LabelTokens /\ DigitRun(s, m) >= 4
        THEN SubSeq(s, m, m + Min(DigitRun(s, m), 8) - 1)
        ELSE None

\* rule 4, ^\s*(\d{4,8})\s*$ without re.MULTILINE: the whole text
Pattern4At(s, i) ==
    LET m == SkipSpaces(s, 1)
        n == DigitRun(s, m)
    IN  IF i = 1 /\ n >= 4 /\ n <= 8 /\ SkipSpaces(s, m + n) = Len(s) + 1
        THEN SubSeq(s, m, m + n - 1)
        ELSE None

\* rule 5 anchored at position i:
\*   (?<![#\-\.\d])(\d{6})(?![#\-\.\d%px])
Pattern5At(s, i) ==
    IF /\ DigitRun(s, i) >= 6
       /\ (i = 1 \/ (s[i - 1] \notin {"#", "-", "."} /\ ~IsDigit(s[i - 1])))
       /\ (i + 6 > Len(s)
            \/ (s[i + 6] \notin {"#", "-", ".", "%", "p", "x"} /\ ~IsDigit(s[i + 6])))
    THEN SubSeq(s, i, i + 5)
    ELSE None

PatternAt(n, s, i) ==
    CASE n = 1 -> Pattern1At(s, i)
      [] n = 2 -> Pattern2At(s, i)
      [] n = 3 -> Pattern3At(s, i)
      [] n = 4 -> Pattern4At(s, i)
      [] OTHER -> Pattern5At(s, i)

\* re.search(CODE_PATTERNS[n-1], s).group(1), or None when there is no match
Search(n, s) ==
    LET hits == {i \in 1..Len(s) : PatternAt(n, s, i) # None}
    IN  IF hits = {} THEN None ELSE PatternAt(n, s, Least(hits))

\* ------------------------------------------------------------------------
\* extract_verification_code
\* ------------------------------------------------------------------------
RECURSIVE FirstAccepted(_, _)
\* the for loop over patterns: the first pattern of ns whose match is
\* accepted decides; a rejected match moves on to the next pattern
FirstAccepted(ns, s) ==
    IF ns = <<>> THEN None
    ELSE LET code == Search(Head(ns), s)
         IN  IF code # None /\ Acceptable(code) THEN code
             ELSE FirstAccepted(Tail(ns), s)

\* a mutation of extract_verification_code: the first run of digits of the
\* text is returned whatever its length
extract_verification_code_AnyRun(text) ==
    LET starts == {i \in 1..Len(text) : IsDigit(text[i])}
    IN  IF starts = {} THEN None
        ELSE SubSeq(text, Least(starts), Least(starts) + DigitRun(text, Least(starts)) - 1)

extract_verification_code(text) ==
    IF text = <<>> THEN None
    ELSE LET search_text  == Prefix(text, 1000)
             cleaned_text == clean_html_text(search_text)
             precise      == FirstAccepted(<<1, 2>>, search_text)
         IN  IF precise # None THEN precise
             ELSE FirstAccepted(<<3, 4, 5>>, cleaned_text)

\* ------------------------------------------------------------------------
\* Texts given to extract_verification_code on its own
\* ------------------------------------------------------------------------
CountDigits == <<"1", "2", "3", "4", "5", "6", "7", "8", "9", "0">>

MixedDigits == <<"4", "8", "2", "9", "1", "3", "7", "5", "6", "0">>

RunKinds == {"zeros", "ones", "count", "mixed"}

\* a run of n digits: "000...", "111...", "1234..." or "4829..."
Run(kind, n) ==
    [j \in 1..n |->
        CASE kind = "zeros" -> "0"
          [] kind = "ones"  -> "1"
          [] kind = "count" -> CountDigits[((j - 1) % 10) + 1]
          [] OTHER          -> MixedDigits[((j - 1) % 10) + 1]]

Runs == {Run(kind, n) : kind \in RunKinds, n \in 0..MaxRun}

Frames == 1..12

\* the run r in one of twelve surroundings: alone, between words, after a
\* label, inside the markup of an HTML mail, as a colour code, as a pixel
\* measure, on a line of its own, between punctuation, twice in a row
Frame(f, r) ==
    CASE f = 1  -> r
      [] f = 2  -> <<"w", " ">> \o r \o <<" ", "w">>
      [] f = 3  -> <<"Code", ":", " ">> \o r
      [] f = 4  -> <<"YZM">> \o r \o <<"w">>
      [] f = 5  -> <<"<p>", "YZM", "</p>", "<div>">> \o r \o <<"</div>">>
      [] f = 6  -> <<"<p>", "YZM", "</p>", "<div>", "w", "<div#>">> \o r \o <<"</div>">>
      [] f = 7  -> <<"#">> \o r \o <<" ", "w">>
      [] f = 8  -> <<"YZM", " ">> \o r \o <<"p", "x">>
      [] f = 9  -> <<" ">> \o r \o <<"\n">>
      [] f = 10 -> <<"w", "-">> \o r \o <<".">>
      [] f = 11 -> <<"Code", " ">> \o r \o <<" ">> \o r
      [] OTHER  -> <<"<p>", "YZM", "</p>", " ", "<div>", " ">> \o r \o <<" ", "</div>">>

\* the two runs of a text that holds two framed runs
FirstRuns == {Run("mixed", 5), Run("mixed", 6)}

SecondRuns == {Run("count", 6), Run("ones", 4)}

Texts ==
    {Frame(f, r) : f \in Frames, r \in Runs}
      \cup {Frame(f, a) \o <<" ", "w", " ">> \o Frame(g, b) :
               f \in Frames, g \in Frames, a \in FirstRuns, b \in SecondRuns}

\* ------------------------------------------------------------------------
\* The mailbox: what the messages hold
\* ------------------------------------------------------------------------
\* Subjects are sequences of words, bodies sequences of tokens.
\*   1  subject "Weekly Report", body "Code: 482913"
\*   2  subject "Login",         body "w YZM w 482913 w"
\*   3  subject "verification",  body "w w" (a keyword, no digits)
\*   4  subject "Login",         body
\*        "<div style='color:#336699'>w</div><p>YZM</p><div>739201</div>"
Catalogue ==
    << [subject |-> <<"Weekly", "Report">>,
        body    |-> <<"Code", ":", " ", "4", "8", "2", "9", "1", "3">>],
       [subject |-> <<"Login">>,
        body    |-> <<"w", "YZM", "w", " ", "4", "8", "2", "9", "1", "3", "w">>],
       [subject |-> <<"verification">>,
        body    |-> <<"w", " ", "w">>],
       [subject |-> <<"Login">>,
        body    |-> <<"<div#>", "w", "</div>", "<p>", "YZM", "</p>",
                      "<div>", "7", "3", "9", "2", "0", "1", "</div>">>] >>

\* the message the server holds under id i (ids are 1, 2, ... in arrival order)
Message(i) == Catalogue[((i - 1) % Len(Catalogue)) + 1]

\* extract_verification_code(body) for each message of the catalogue,
\* computed once
ExtractedCode == [n \in 1..Len(Catalogue) |-> extract_verification_code(Catalogue[n].body)]

\* extract_verification_code(Message(id).body)
CodeOf(id) == ExtractedCode[((id - 1) % Len(Catalogue)) + 1]

Chats == 1..NumChats

\* ------------------------------------------------------------------------
\* State
\* ------------------------------------------------------------------------
VARIABLES
    pc,           \* where the poll loop is
    error_count,  \* self.error_count
    success,      \* the value check_emails returned to run
    nmsgs,        \* number of messages that have arrived in INBOX
    seen,         \* ids of the messages carrying the \Seen flag
    imap,         \* state of this cycle's IMAP4 object, "none" when there is none
    result,       \* the pending return value of check_emails
    email_ids,    \* messages[0].split(), the ids the search listed
    idx,          \* position of the for loop in email_ids[-5:]
    email_info,   \* what process_email returned for the current id
    processed,    \* local counter of check_emails
    forwarded,    \* local counter of check_emails
    last_send,    \* what send_to_telegram did for the current message
    log,          \* the operations of the current cycle, in order
    prev_count,   \* error_count as it was when check_emails returned
    sleeps,       \* the time.sleep calls of the current iteration of run
    arg_text,     \* the text extract_verification_code is called with on its own
    ret_code,     \* what that call returned
    metrics,      \* EnhancedHealthHandler.metrics, shared by the two threads
    writers,      \* for each field of metrics, the threads that have written it
    unacked,      \* ids forwarded in a cycle whose mark-read then raised
    since,        \* the cycles counted since the last Cooling, by outcome
    recovery      \* whether the mail server has stopped failing for good,
                  \* and how many messages were unseen when it did

vars == <<pc, error_count, success, nmsgs, seen, imap, result, email_ids, idx,
          email_info, processed, forwarded, last_send, log, prev_count, sleeps,
          arg_text, ret_code, metrics, writers, unacked, since,
          recovery>>

\* the variables of the poll loop
poll_vars == <<pc, error_count, success, nmsgs, seen, imap, result, email_ids, idx,
               email_info, processed, forwarded, last_send, log, prev_count, sleeps>>

extract_vars == <<arg_text, ret_code>>

metrics_vars == <<metrics, writers>>

\* what the properties remember of earlier cycles
history_vars == <<unacked, since>>

run_vars == <<error_count, success, prev_count, sleeps>>

cycle_vars == <<imap, result, email_ids, idx, email_info, processed, forwarded,
                last_send, log>>

NoInfo == [subject |-> <<>>, code |-> None, valid |-> FALSE]

NoSend == [attempted |-> <<>>, accepted |-> {}, success_count |-> 0]

Event(op, id, ok) == [op |-> op, id |-> id, ok |-> ok]

\* a KeyboardInterrupt raised in the main thread that is propagating
KeyboardInterrupt == Event("interrupt", 0, TRUE)

\* a KeyboardInterrupt that a bare except clause caught
Swallowed == Event("interrupt", 0, FALSE)

Pending == \E k \in 1..Len(log) : log[k] = KeyboardInterrupt

\* HealthMetrics(start_time=time.time()); a time stamp is modelled by the
\* statement that took it
NoMetrics ==
    [email_checks |-> 0, emails_forwarded |-> 0, telegram_sent |-> 0, errors |-> 0,
     last_email_check |-> "None", last_telegram_send |-> "None"]

\* no cycle has been counted and no Cooling performed
NoCycles ==
    [cooled |-> FALSE, failed |-> 0, succeeded |-> 0, floored |-> 0,
     last_cooled |-> FALSE]

\* the mail server may fail
StillFailing == [done |-> FALSE, unseen |-> 0]

Fresh ==
    /\ error_count = 0
    /\ success = TRUE
    /\ nmsgs = 0
    /\ seen = {}
    /\ imap = "none"
    /\ result = TRUE
    /\ email_ids = <<>>
    /\ idx = 0
    /\ email_info = NoInfo
    /\ processed = 0
    /\ forwarded = 0
    /\ last_send = NoSend
    /\ log = <<>>
    /\ prev_count = 0
    /\ sleeps = <<>>
    /\ metrics = NoMetrics
    /\ writers = [f \in DOMAIN NoMetrics |-> {}]
    /\ unacked = {}
    /\ since = NoCycles
    /\ recovery = StillFailing

Init ==
    /\ pc = "idle"
    /\ Fresh
    /\ arg_text = <<>>
    /\ ret_code = None

\* ------------------------------------------------------------------------
\* Environment: a new message arrives.  Arrivals only matter through the
\* next UNSEEN search, so they are taken between two cycles.
\* ------------------------------------------------------------------------
NewMail ==
    /\ pc = "idle"
    /\ nmsgs < MaxMsgs
    /\ nmsgs' = nmsgs + 1
    /\ UNCHANGED <<pc, run_vars, seen, cycle_vars>>

\* ------------------------------------------------------------------------
\* connect_imap
\* ------------------------------------------------------------------------
\* run calls check_emails, which calls connect_imap
StartCycle ==
    /\ pc = "idle"
    /\ pc' = "connect"
    /\ UNCHANGED <<run_vars, nmsgs, seen, cycle_vars>>

\* imaplib.IMAP4_SSL(...): the transport is established, or the constructor
\* raises and connect_imap returns None
ConnectTransport ==
    /\ pc = "connect"
    /\ \E ok \in BOOLEAN :
         /\ log' = Append(log, Event("connect", 0, ok))
         /\ IF ok
            THEN /\ imap' = "NONAUTH"
                 /\ pc' = "login"
                 /\ UNCHANGED result
            ELSE /\ imap' = "none"
                 /\ result' = FALSE
                 /\ pc' = "ret"
    /\ UNCHANGED <<run_vars, nmsgs, seen, email_ids, idx, email_info,
                   processed, forwarded, last_send>>

\* imap.login(...): raises on a NO answer and on a transport error; the except
\* clauses of connect_imap log and return None, the IMAP4 object is dropped
Login ==
    /\ pc = "login"
    /\ \E ok \in BOOLEAN :
         /\ log' = Append(log, Event("login", 0, ok))
         /\ IF ok
            THEN /\ imap' = "AUTH"
                 /\ pc' = "select"
                 /\ UNCHANGED result
            ELSE /\ imap' = "none"
                 /\ result' = FALSE
                 /\ pc' = "ret"
    /\ UNCHANGED <<run_vars, nmsgs, seen, email_ids, idx, email_info,
                   processed, forwarded, last_send>>

\* imap.select("INBOX"): "OK" moves the object to SELECTED; a "NO" answer is
\* returned, not raised, and leaves it in AUTH; connect_imap ignores the
\* returned status.  A transport error raises and connect_imap returns None.
Select ==
    /\ pc = "select"
    /\ \E outcome \in {"OK", "NO", "raise"} :
         /\ log' = Append(log, Event("select", 0, outcome = "OK"))
         /\ IF outcome = "raise"
            THEN /\ imap' = "none"
                 /\ result' = FALSE
                 /\ pc' = "ret"
            ELSE /\ imap' = (IF outcome = "OK" THEN "SELECTED" ELSE "AUTH")
                 /\ pc' = "search"
                 /\ UNCHANGED result
    /\ UNCHANGED <<run_vars, nmsgs, seen, email_ids, idx, email_info,
                   processed, forwarded, last_send>>

\* ------------------------------------------------------------------------
\* check_emails
\* ------------------------------------------------------------------------
RECURSIVE Ascending(_)
\* the elements of a finite set of integers in increasing order
Ascending(S) ==
    IF S = {} THEN <<>>
    ELSE <<Least(S)>> \o Ascending(S \ {Least(S)})

\* messages[0].split() of a successful UNSEEN search: oldest first
Unseen == Ascending((1..nmsgs) \ seen)

\* seq[-n:]
LastN(seq, n) == SubSeq(seq, Max(1, Len(seq) - n + 1), Len(seq))

\* imap.search(None, 'UNSEEN').  On an object that is not in SELECTED state
\* imaplib raises before sending anything.  A non-OK status and an empty
\* listing both return True; an exception is caught and returns False.
SearchUnseen ==
    /\ pc = "search"
    /\ \E outcome \in (IF imap = "SELECTED" THEN {"OK", "NO", "raise"} ELSE {"raise"}) :
         /\ log' = Append(log, Event("search", 0, outcome = "OK"))
         /\ IF outcome = "OK" /\ Unseen # <<>>
            THEN /\ email_ids' = Unseen
                 /\ idx' = 1
                 /\ pc' = "fetch"
                 /\ UNCHANGED result
            ELSE /\ result' = (outcome # "raise")
                 /\ pc' = "close"
                 /\ UNCHANGED <<email_ids, idx>>
    /\ UNCHANGED <<run_vars, nmsgs, seen, imap, email_info, processed, forwarded,
                   last_send>>

\* a mutation of Batch: the loop walks the first five ids of the listing
Batch_Oldest == SubSeq(email_ids, 1, Min(Len(email_ids), FETCH_LIMIT))

\* email_ids[-5:], the ids the for loop walks
Batch == LastN(email_ids, FETCH_LIMIT)

\* the for loop moves to its next id, or ends and check_emails returns True
NextPc == IF idx < Len(Batch) THEN "fetch" ELSE "close"

NextIdx == IF idx < Len(Batch) THEN idx + 1 ELSE idx

\* a mutation of AfterProcess: the message is marked read without dispatch
AfterProcess_NoDispatch(code) == "store"

\* a mutation of AfterProcess: every evaluated message is dispatched
AfterProcess_AlwaysSend(code) == "send"

\* a mutation of AfterProcess: imap.store sits inside the if, so a message
\* without a code is left unmarked
AfterProcess_StoreInsideIf(code) == IF code # None THEN "send" ELSE NextPc

\* if email_info.code: send_to_telegram(...); then imap.store(...)
AfterProcess(code) == IF code # None THEN "send" ELSE "store"

\* a mutation of AfterFailedFetch: a message that cannot be fetched or parsed
\* ends the for loop
AfterFailedFetch_Break == "close"

\* process_email returned None: the if email_info is skipped and the for loop
\* takes its next id
AfterFailedFetch == NextPc

\* process_email(imap, email_id): fetch, parse, extract.  A non-OK fetch
\* status and any exception raised by the fetch or the parsing return None,
\* and the loop goes on with the next id.
ProcessEmail ==
    /\ pc = "fetch"
    /\ LET id == Batch[idx] IN
       \E outcome \in {"OK", "NO", "raise"} :
         IF outcome = "OK"
         THEN LET code == CodeOf(id) IN
              /\ email_info' = [subject |-> Message(id).subject, code |-> code,
                                valid |-> TRUE]
              /\ log' = log \o <<Event("fetch", id, TRUE), Event("extract", id, code # None)>>
              /\ processed' = processed + 1
              /\ pc' = AfterProcess(code)
              /\ UNCHANGED <<idx, result>>
         ELSE /\ email_info' = NoInfo
              /\ log' = Append(log, Event("fetch", id, FALSE))
              /\ pc' = AfterFailedFetch
              /\ idx' = NextIdx
              /\ result' = (IF AfterFailedFetch = "close" THEN TRUE ELSE result)
              /\ UNCHANGED processed
    /\ UNCHANGED <<run_vars, nmsgs, seen, imap, email_ids, forwarded, last_send>>

\* ------------------------------------------------------------------------
\* send_to_telegram
\* ------------------------------------------------------------------------
\* self.chat_ids
chat_ids == [i \in 1..NumChats |-> i]

RECURSIVE SendLoop_StopAtFailure(_, _, _)
\* a mutation of SendLoop: the POST is not wrapped in its own try, so the
\* first exception ends the loop
SendLoop_StopAtFailure(chats, outcome, acc) ==
    IF chats = <<>> THEN acc
    ELSE LET next == [attempted     |-> Append(acc.attempted, Head(chats)),
                      accepted      |-> acc.accepted \cup
                                          (IF outcome[Head(chats)] = "200"
                                           THEN {Head(chats)} ELSE {}),
                      success_count |-> acc.success_count
                                          + (IF outcome[Head(chats)] = "200" THEN 1 ELSE 0)]
         IN  IF outcome[Head(chats)] = "raise" THEN next
             ELSE SendLoop_StopAtFailure(Tail(chats), outcome, next)

RECURSIVE SendLoop(_, _, _)
\* the for loop over chat_ids: one POST per chat; status 200 counts, any
\* other status or an exception is logged and the loop goes on
SendLoop(chats, outcome, acc) ==
    IF chats = <<>> THEN acc
    ELSE SendLoop(Tail(chats), outcome,
                  [attempted     |-> Append(acc.attempted, Head(chats)),
                   accepted      |-> acc.accepted \cup
                                       (IF outcome[Head(chats)] = "200"
                                        THEN {Head(chats)} ELSE {}),
                   success_count |-> acc.success_count
                                       + (IF outcome[Head(chats)] = "200" THEN 1 ELSE 0)])

SendToTelegram ==
    /\ pc = "send"
    /\ \E outcome \in [Chats -> {"200", "other", "raise"}] :
         LET sent == SendLoop(chat_ids, outcome, NoSend) IN
         /\ last_send' = sent
         /\ log' = Append(log, Event("send", Batch[idx], sent.success_count > 0))
         /\ forwarded' = (IF sent.success_count > 0 THEN forwarded + 1 ELSE forwarded)
    /\ pc' = "store"
    /\ UNCHANGED <<run_vars, nmsgs, seen, imap, result, email_ids, idx, email_info,
                   processed>>

\* a mutation of MarkRead: the call has a try of its own, so an exception is
\* logged and the for loop goes on with its next id
MarkRead_Contained ==
    /\ pc = "store"
    /\ \E ok \in BOOLEAN :
         /\ log' = Append(log, Event("store", Batch[idx], ok))
         /\ seen' = (IF ok THEN seen \cup {Batch[idx]} ELSE seen)
    /\ pc' = NextPc
    /\ idx' = NextIdx
    /\ result' = (IF NextPc = "close" THEN TRUE ELSE result)
    /\ email_info' = NoInfo
    /\ last_send' = NoSend
    /\ UNCHANGED <<run_vars, nmsgs, imap, email_ids, processed, forwarded>>

\* imap.store(email_id, '+FLAGS', '\\Seen'): the flag is set, or the call
\* raises, which ends the for loop through the except clause (return False)
MarkRead ==
    /\ pc = "store"
    /\ \E ok \in BOOLEAN :
         /\ log' = Append(log, Event("store", Batch[idx], ok))
         /\ IF ok
            THEN /\ seen' = seen \cup {Batch[idx]}
                 /\ pc' = NextPc
                 /\ idx' = NextIdx
                 /\ result' = (IF NextPc = "close" THEN TRUE ELSE result)
            ELSE /\ result' = FALSE
                 /\ pc' = "close"
                 /\ UNCHANGED <<seen, idx>>
    /\ email_info' = NoInfo
    /\ last_send' = NoSend
    /\ UNCHANGED <<run_vars, nmsgs, imap, email_ids, processed, forwarded>>

\* finally: imap.close().  imaplib refuses CLOSE outside SELECTED state by
\* raising; the bare except swallows it and logout is not called.
Close ==
    /\ pc = "close"
    /\ \E ok \in (IF imap = "SELECTED" THEN BOOLEAN ELSE {FALSE}) :
         /\ log' = Append(log, Event("close", 0, ok))
         /\ imap' = (IF ok THEN "AUTH" ELSE imap)
         /\ pc' = (IF ok THEN "logout" ELSE "ret")
    /\ UNCHANGED <<run_vars, nmsgs, seen, result, email_ids, idx, email_info,
                   processed, forwarded, last_send>>

\* finally: imap.logout(); an exception is swallowed by the bare except
Logout ==
    /\ pc = "logout"
    /\ \E ok \in BOOLEAN :
         log' = Append(log, Event("logout", 0, ok))
    /\ imap' = "LOGOUT"
    /\ pc' = "ret"
    /\ UNCHANGED <<run_vars, nmsgs, seen, result, email_ids, idx, email_info,
                   processed, forwarded, last_send>>

\* check_emails returns to run; its locals are gone
Return ==
    /\ pc = "ret"
    /\ ~Pending
    /\ success' = result
    /\ pc' = "update"
    /\ imap' = "none"
    /\ result' = TRUE
    /\ email_ids' = <<>>
    /\ idx' = 0
    /\ email_info' = NoInfo
    /\ processed' = 0
    /\ forwarded' = 0
    /\ last_send' = NoSend
    /\ log' = <<>>
    /\ UNCHANGED <<error_count, prev_count, sleeps, nmsgs, seen>>

\* ------------------------------------------------------------------------
\* run
\* ------------------------------------------------------------------------
ERROR_BACKOFF == 60

CHECK_INTERVAL == 15

\* a mutation of Counted: a successful cycle leaves the counter alone
Counted_Sticky(count, ok) == IF ok THEN count ELSE count + 1

\* a mutation of Counted: the decrement has no floor
Counted_NoFloor(count, ok) == IF ok THEN count - 1 ELSE count + 1

\* if success: error_count = max(0, error_count - 1) else: error_count += 1
Counted(count, ok) == IF ok THEN Max(0, count - 1) ELSE count + 1

UpdateCount ==
    /\ pc = "update"
    /\ prev_count' = error_count
    /\ error_count' = Counted(error_count, success)
    /\ pc' = "check"
    /\ UNCHANGED <<success, sleeps, nmsgs, seen, cycle_vars>>

\* a mutation of TooManyErrors: > instead of >=
TooManyErrors_Strict(count) == count > MAX_ERROR_COUNT

\* if self.error_count >= Config.MAX_ERROR_COUNT
TooManyErrors(count) == count >= MAX_ERROR_COUNT

CheckCount ==
    /\ pc = "check"
    /\ pc' = (IF TooManyErrors(error_count) THEN "cooling" ELSE "sleep")
    /\ UNCHANGED <<run_vars, nmsgs, seen, cycle_vars>>

\* a mutation of Reduced: the counter is set one below the maximum
Reduced_ByOne == MAX_ERROR_COUNT - 1

\* self.error_count = Config.MAX_ERROR_COUNT // 2
Reduced == MAX_ERROR_COUNT \div 2

\* a mutation of Cooling: the counter is reduced without the extended sleep
Cooling_NoSleep ==
    /\ pc = "cooling"
    /\ error_count' = Reduced
    /\ pc' = "sleep"
    /\ UNCHANGED <<sleeps, success, prev_count, nmsgs, seen, cycle_vars>>

\* a mutation of Cooling: after MAX_ERROR_COUNT failures run gives up
Cooling_GiveUp ==
    /\ pc = "cooling"
    /\ pc' = "done"
    /\ UNCHANGED <<run_vars, nmsgs, seen, cycle_vars>>

\* time.sleep(ERROR_BACKOFF), then the counter is reduced
Cooling ==
    /\ pc = "cooling"
    /\ sleeps' = Append(sleeps, ERROR_BACKOFF)
    /\ error_count' = Reduced
    /\ pc' = "sleep"
    /\ UNCHANGED <<success, prev_count, nmsgs, seen, cycle_vars>>

\* time.sleep(check_interval)
Sleep ==
    /\ pc = "sleep"
    /\ sleeps' = Append(sleeps, CHECK_INTERVAL)
    /\ pc' = "wake"
    /\ UNCHANGED <<error_count, success, prev_count, nmsgs, seen, cycle_vars>>

\* the while loop starts its next iteration; success is assigned again
\* before it is read, so the locals of the iteration are reset here
Wake ==
    /\ pc = "wake"
    /\ pc' = "idle"
    /\ success' = TRUE
    /\ prev_count' = 0
    /\ sleeps' = <<>>
    /\ UNCHANGED <<error_count, nmsgs, seen, cycle_vars>>

\* the metrics, the text under extraction and the record of forwards that
\* were not acknowledged are left aside
Held == UNCHANGED <<extract_vars, metrics_vars, history_vars, recovery>>

\* the poll loop on its own
Next ==
    \/ NewMail /\ Held
    \/ StartCycle /\ Held
    \/ ConnectTransport /\ Held
    \/ Login /\ Held
    \/ Select /\ Held
    \/ SearchUnseen /\ Held
    \/ ProcessEmail /\ Held
    \/ SendToTelegram /\ Held
    \/ MarkRead /\ Held
    \/ Close /\ Held
    \/ Logout /\ Held
    \/ Return /\ Held
    \/ UpdateCount /\ Held
    \/ CheckCount /\ Held
    \/ Cooling /\ Held
    \/ Sleep /\ Held
    \/ Wake /\ Held

Spec == Init /\ [][Next]_vars

\* ------------------------------------------------------------------------
\* The poll loop with few arrivals, and the loop thread never stopping
\* ------------------------------------------------------------------------
\* a step of the main thread
PollStep ==
    \/ StartCycle \/ ConnectTransport \/ Login \/ Select \/ SearchUnseen
    \/ ProcessEmail \/ SendToTelegram \/ MarkRead \/ Close \/ Logout \/ Return
    \/ UpdateCount \/ CheckCount \/ Cooling \/ Sleep \/ Wake

FewNext ==
    \/ NewMail /\ nmsgs < FewMsgs /\ Held
    \/ StartCycle /\ Held
    \/ ConnectTransport /\ Held
    \/ Login /\ Held
    \/ Select /\ Held
    \/ SearchUnseen /\ Held
    \/ ProcessEmail /\ Held
    \/ SendToTelegram /\ Held
    \/ MarkRead /\ Held
    \/ Close /\ Held
    \/ Logout /\ Held
    \/ Return /\ Held
    \/ UpdateCount /\ Held
    \/ CheckCount /\ Held
    \/ Cooling /\ Held
    \/ Sleep /\ Held
    \/ Wake /\ Held

\* the main thread is scheduled for as long as it can take a step; nothing
\* is assumed about the arrival of mail
LiveSpec == Init /\ [][FewNext]_vars /\ WF_vars(PollStep /\ Held)

\* ------------------------------------------------------------------------
\* KeyboardInterrupt
\* ------------------------------------------------------------------------
\* A KeyboardInterrupt is raised in the main thread at the statement it is
\* executing.  Outside check_emails the except clause of run catches it
\* and breaks.  In connect_imap no clause catches it, it leaves
\* check_emails before the try and the IMAP4 object is dropped.  Inside
\* the try of check_emails it starts the finally block; inside
\* process_email the bare except around the date and payload parsing may
\* catch it instead.  Raised by imap.close() or imap.logout() in the
\* finally block it is caught by the bare except there.
Interrupt ==
    /\ \A k \in 1..Len(log) : log[k].op # "interrupt"
    /\ \/ /\ pc \in {"idle", "connect", "login", "select", "update", "check",
                      "cooling", "sleep", "wake"}
          /\ log' = Append(log, KeyboardInterrupt)
          /\ pc' = "done"
       \/ /\ pc \in {"search", "fetch", "send", "store"}
          /\ log' = Append(log, KeyboardInterrupt)
          /\ pc' = "close"
       \/ /\ pc = "fetch"
          /\ log' = Append(log, Swallowed)
          /\ pc' = pc
       \/ /\ pc \in {"close", "logout"}
          /\ log' = log \o <<Swallowed, Event(pc, 0, FALSE)>>
          /\ pc' = "ret"
    /\ UNCHANGED <<run_vars, nmsgs, seen, imap, result, email_ids, idx, email_info,
                   processed, forwarded, last_send>>

\* the interrupt leaves check_emails; except KeyboardInterrupt: break
Exit ==
    /\ pc = "ret"
    /\ Pending
    /\ pc' = "done"
    /\ UNCHANGED <<run_vars, nmsgs, seen, cycle_vars>>

InterruptNext ==
    \/ FewNext
    \/ Interrupt /\ Held
    \/ Exit /\ Held

InterruptSpec == Init /\ [][InterruptNext]_vars

\* ------------------------------------------------------------------------
\* extract_verification_code on its own
\* ------------------------------------------------------------------------
ExtractInit ==
    /\ pc = "extract"
    /\ Fresh
    /\ arg_text \in Texts
    /\ ret_code = None

Extract ==
    /\ pc = "extract"
    /\ ret_code' = extract_verification_code(arg_text)
    /\ pc' = "extracted"
    /\ UNCHANGED <<run_vars, nmsgs, seen, cycle_vars, arg_text, metrics_vars, history_vars,
                   recovery>>

ExtractNext == Extract

ExtractSpec == ExtractInit /\ [][ExtractNext]_vars

\* ------------------------------------------------------------------------
\* The metrics record: the poll loop in the main thread, the health server
\* in its own thread
\* ------------------------------------------------------------------------
\* writers after thread has assigned to the fields fs
Wrote(thread, fs) ==
    [f \in DOMAIN writers |-> IF f \in fs THEN writers[f] \cup {thread} ELSE writers[f]]

\* run: metrics.email_checks += 1; metrics.last_email_check = time.time()
CountCheck ==
    /\ metrics.email_checks < MaxChecks
    /\ metrics' = [metrics EXCEPT !.email_checks = @ + 1, !.last_email_check = "run"]
    /\ writers' = Wrote("main", {"email_checks", "last_email_check"})

\* send_to_telegram: metrics.telegram_sent += success_count;
\* metrics.last_telegram_send = time.time()
CountSent ==
    /\ metrics' = [metrics EXCEPT !.telegram_sent = @ + last_send'.success_count,
                                  !.last_telegram_send = "send_to_telegram"]
    /\ writers' = Wrote("main", {"telegram_sent", "last_telegram_send"})

\* check_emails, after the for loop:
\* if forwarded > 0: metrics.emails_forwarded += forwarded
CountForwarded ==
    IF pc' = "close" /\ result' /\ forwarded > 0
    THEN /\ metrics' = [metrics EXCEPT !.emails_forwarded = @ + forwarded]
         /\ writers' = Wrote("main", {"emails_forwarded"})
    ELSE UNCHANGED metrics_vars

\* run: metrics.errors += 1 when check_emails returned False
CountError ==
    IF ~success
    THEN /\ metrics' = [metrics EXCEPT !.errors = @ + 1]
         /\ writers' = Wrote("main", {"errors"})
    ELSE UNCHANGED metrics_vars

\* EnhancedHealthHandler.do_GET: stamps last_email_check, then answers with
\* metrics.to_dict()
do_GET ==
    /\ metrics' = [metrics EXCEPT !.last_email_check = "do_GET"]
    /\ writers' = Wrote("HealthServer", {"last_email_check"})
    /\ UNCHANGED <<poll_vars, extract_vars, history_vars, recovery>>

\* EnhancedHealthHandler.do_HEAD: stamps last_email_check
do_HEAD ==
    /\ metrics' = [metrics EXCEPT !.last_email_check = "do_HEAD"]
    /\ writers' = Wrote("HealthServer", {"last_email_check"})
    /\ UNCHANGED <<poll_vars, extract_vars, history_vars, recovery>>

MetricsNext ==
    \/ NewMail /\ nmsgs < MetricsMsgs /\ Held
    \/ StartCycle /\ CountCheck /\ UNCHANGED <<extract_vars, history_vars, recovery>>
    \/ ConnectTransport /\ Held
    \/ Login /\ Held
    \/ Select /\ Held
    \/ SearchUnseen /\ Held
    \/ ProcessEmail /\ CountForwarded /\ UNCHANGED <<extract_vars, history_vars, recovery>>
    \/ SendToTelegram /\ CountSent /\ UNCHANGED <<extract_vars, history_vars, recovery>>
    \/ MarkRead /\ CountForwarded /\ UNCHANGED <<extract_vars, history_vars, recovery>>
    \/ Close /\ Held
    \/ Logout /\ Held
    \/ Return /\ Held
    \/ UpdateCount /\ CountError /\ UNCHANGED <<extract_vars, history_vars, recovery>>
    \/ CheckCount /\ Held
    \/ Cooling /\ Held
    \/ Sleep /\ Held
    \/ Wake /\ Held
    \/ do_GET
    \/ do_HEAD

MetricsSpec == Init /\ [][MetricsNext]_vars

\* ------------------------------------------------------------------------
\* Forwards that were not acknowledged: the poll loop with the record of the
\* messages whose mark-read raised after send_to_telegram returned True
\* ------------------------------------------------------------------------
\* imap.store raised for a message that send_to_telegram had delivered to at
\* least one chat: the message is recorded
Unacknowledged ==
    unacked' = IF ~log'[Len(log')].ok /\ last_send.success_count > 0
               THEN unacked \cup {Batch[idx]}
               ELSE unacked

Kept == UNCHANGED <<extract_vars, metrics_vars, since, recovery>>

ResendNext ==
    \/ NewMail /\ nmsgs < FewMsgs /\ Held
    \/ StartCycle /\ Held
    \/ ConnectTransport /\ Held
    \/ Login /\ Held
    \/ Select /\ Held
    \/ SearchUnseen /\ Held
    \/ ProcessEmail /\ Held
    \/ SendToTelegram /\ Held
    \/ MarkRead /\ Unacknowledged /\ Kept
    \/ Close /\ Held
    \/ Logout /\ Held
    \/ Return /\ Held
    \/ UpdateCount /\ Held
    \/ CheckCount /\ Held
    \/ Cooling /\ Held
    \/ Sleep /\ Held
    \/ Wake /\ Held

ResendSpec == Init /\ [][ResendNext]_vars

\* ------------------------------------------------------------------------
\* The cycles between two Cooling periods: the poll loop with the count of
\* the cycles run since the last Cooling
\* ------------------------------------------------------------------------
\* run has the return value of check_emails: the cycle is counted as failed
\* or successful; a success with the counter at 0 leaves it at 0
Tally ==
    since' = [since EXCEPT
                !.failed    = @ + (IF success THEN 0 ELSE 1),
                !.succeeded = @ + (IF success THEN 1 ELSE 0),
                !.floored   = @ + (IF success /\ error_count = 0 THEN 1 ELSE 0)]

\* time.sleep(ERROR_BACKOFF) was performed: the count starts again
Cooled ==
    since' = [NoCycles EXCEPT !.cooled = TRUE, !.last_cooled = since.last_cooled]

\* the iteration ends: whether it performed Cooling is remembered
EndIteration ==
    since' = [since EXCEPT
                !.last_cooled = (\E j \in 1..Len(sleeps) : sleeps[j] = ERROR_BACKOFF)]

Rest == UNCHANGED <<extract_vars, metrics_vars, unacked, recovery>>

CoolNext ==
    \/ NewMail /\ nmsgs < FewMsgs /\ Held
    \/ StartCycle /\ since.failed + since.succeeded < MaxSince /\ Held
    \/ ConnectTransport /\ Held
    \/ Login /\ Held
    \/ Select /\ Held
    \/ SearchUnseen /\ Held
    \/ ProcessEmail /\ Held
    \/ SendToTelegram /\ Held
    \/ MarkRead /\ Held
    \/ Close /\ Held
    \/ Logout /\ Held
    \/ Return /\ Held
    \/ UpdateCount /\ Tally /\ Rest
    \/ CheckCount /\ Held
    \/ Cooling /\ Cooled /\ Rest
    \/ Sleep /\ Held
    \/ Wake /\ EndIteration /\ Rest

CoolSpec == Init /\ [][CoolNext]_vars

\* ------------------------------------------------------------------------
\* A backlog and a server that recovers: the mailbox holds its messages
\* from the start, no mail arrives, and from some point on the IMAP calls
\* stop failing
\* ------------------------------------------------------------------------
\* connect, login, select, search, fetch and store succeed from now on
recovered == recovery.done

\* the backlog: messages arrive together between two cycles, while the
\* server may still fail
Backlog ==
    /\ pc = "idle"
    /\ nmsgs = 0
    /\ ~recovered
    /\ \E n \in 1..MaxBacklog : nmsgs' = n
    /\ UNCHANGED <<pc, run_vars, seen, cycle_vars>>

\* from here on connect, login, select, search, fetch and store succeed
Recover ==
    /\ ~recovered
    /\ recovery' = [done |-> TRUE, unseen |-> Len(Unseen)]
    /\ UNCHANGED <<poll_vars, extract_vars, metrics_vars, history_vars>>

\* the IMAP calls of this step succeeded if the server has recovered; a
\* search on a session whose select was refused before the recovery is
\* still refused by imaplib
Reliable ==
    recovered =>
        \A k \in (Len(log) + 1)..Len(log') :
            /\ log'[k].op \in {"connect", "login", "select", "fetch", "store"}
                   => log'[k].ok
            /\ (log'[k].op = "search" /\ imap = "SELECTED") => log'[k].ok

\* a step of the main thread
DrainStep ==
    \/ StartCycle /\ Held
    \/ ConnectTransport /\ Reliable /\ Held
    \/ Login /\ Reliable /\ Held
    \/ Select /\ Reliable /\ Held
    \/ SearchUnseen /\ Reliable /\ Held
    \/ ProcessEmail /\ Reliable /\ Held
    \/ SendToTelegram /\ Held
    \/ MarkRead /\ Reliable /\ Held
    \/ Close /\ Held
    \/ Logout /\ Held
    \/ Return /\ Held
    \/ UpdateCount /\ Held
    \/ CheckCount /\ Held
    \/ Cooling /\ Held
    \/ Sleep /\ Held
    \/ Wake /\ Held

DrainNext ==
    \/ Backlog /\ Held
    \/ Recover
    \/ DrainStep

\* the main thread is scheduled for as long as it can take a step
DrainSpec == Init /\ [][DrainNext]_vars /\ WF_vars(DrainStep)

\* ------------------------------------------------------------------------
\* Vocabulary of the properties
\* ------------------------------------------------------------------------
\* the poll loop is inside check_emails
InCycle ==
    pc \in {"connect", "login", "select", "search", "fetch", "send", "store",
            "close", "logout", "ret"}

\* run has the return value of check_emails and has not yet reset its locals
AfterCycle == pc \in {"check", "cooling", "sleep", "wake"}

\* positions of the log at which op was applied to message id
At(op, id) == {k \in 1..Len(log) : log[k].op = op /\ log[k].id = id}

\* positions of the log at which op was applied
Where(op) == {k \in 1..Len(log) : log[k].op = op}

\* the log holds event e
Logged(e) == \E k \in 1..Len(log) : log[k] = e

\* ids of the messages process_email returned an EmailInfo for in this cycle
Evaluated == {log[k].id : k \in Where("extract")}

\* hard-exclude terms of the filter policy (spec section 4.4 and section 8)
ExcludeTerms == {"Report", "Meeting", "Invoice", "Newsletter"}

HasExcludeTerm(subject) == \E k \in 1..Len(subject) : subject[k] \in ExcludeTerms

\* ------------------------------------------------------------------------
\* C1: in every state of the poll loop the error counter is an integer
\* between 0 and MAX_ERROR_COUNT.
\* ------------------------------------------------------------------------
C1_CounterInRange ==
    /\ error_count \in Int
    /\ 0 <= error_count
    /\ error_count <= MAX_ERROR_COUNT

\* the counter stands at its maximum after a failed cycle, before Cooling
C1_Witness ==
    /\ pc = "check"
    /\ ~success
    /\ error_count = MAX_ERROR_COUNT

\* ------------------------------------------------------------------------
\* C2: within a cycle, mark-read of a message comes only after its fetch,
\* after extraction ran on it, and after its forwarding decision was carried
\* out: the dispatch when a code was extracted, nothing when none was.
\* ------------------------------------------------------------------------
C2_MarkReadAfterDecision ==
    \A k \in Where("store") :
        LET id == log[k].id
            F  == {f \in At("fetch", id) : log[f].ok}
            E  == At("extract", id)
            S  == At("send", id)
        IN  \E f \in F : \E e \in E :
                /\ f < e /\ e < k
                /\ IF log[e].ok
                   THEN \E d \in S : e < d /\ d < k
                   ELSE S = {}

\* a message was fetched, a code extracted, dispatched, then marked read
C2_Witness ==
    \E k \in Where("store") :
        /\ log[k].ok
        /\ At("send", log[k].id) # {}
        /\ pc = "ret"

\* ------------------------------------------------------------------------
\* C3 (as claimed): a message whose subject contains a hard-exclude term is
\* never dispatched, whatever its body.
\* ------------------------------------------------------------------------
C3_ExcludedNeverDispatched ==
    \A k \in Where("send") : ~HasExcludeTerm(Message(log[k].id).subject)

\* ------------------------------------------------------------------------
\* C4: dispatch is attempted for a message only if extraction produced a
\* code for it; a message without a code is never dispatched.
\* ------------------------------------------------------------------------
C4_NoCodeNeverDispatched ==
    /\ \A k \in Where("send") :
           /\ \E e \in At("extract", log[k].id) : e < k /\ log[e].ok
           /\ CodeOf(log[k].id) # None
    /\ \A e \in Where("extract") : log[e].ok <=> CodeOf(log[e].id) # None
    /\ pc = "send" => email_info.valid /\ Acceptable(email_info.code)

\* the message with a keyword and no code was evaluated and marked read
\* without any dispatch
C4_Witness ==
    \E k \in Where("store") :
        /\ Logged(Event("extract", log[k].id, FALSE))
        /\ Message(log[k].id).subject = <<"verification">>
        /\ At("send", log[k].id) = {}

C6_AtLeastOnce ==
    \A k \in Where("store") :
        (log[k].ok /\ CodeOf(log[k].id) # None) =>
            \E d \in At("send", log[k].id) : d < k /\ log[d].ok

\* ------------------------------------------------------------------------
\* C7 (as claimed): every cycle-level failure (connection, authentication,
\* folder selection, a search that raises or answers non-OK) makes the
\* update that follows the cycle increment the counter by exactly one.
\* ------------------------------------------------------------------------
CycleLevelFailure ==
    \E k \in 1..Len(log) :
        log[k].op \in {"connect", "login", "select", "search"} /\ ~log[k].ok

C7_FailureIncrements ==
    (pc = "ret" /\ CycleLevelFailure) => Counted(error_count, result) = error_count + 1

\* ------------------------------------------------------------------------
\* C8: a successful cycle changes the counter c to max(0, c - 1), a failed
\* one to c + 1; a success at 0 leaves 0, and Cooling never follows a success.
\* ------------------------------------------------------------------------
C8_SuccessDecrements ==
    /\ (AfterCycle /\ success) =>
           /\ error_count = (IF prev_count = 0 THEN 0 ELSE prev_count - 1)
           /\ pc # "cooling"
    /\ (pc = "check" /\ ~success) => error_count = prev_count + 1

\* the counter stood at 3 after failed cycles and a success took it to 2
C8_Witness ==
    /\ pc = "sleep"
    /\ success
    /\ prev_count = 3
    /\ error_count = 2

\* ------------------------------------------------------------------------
\* C9: when a failed cycle takes the counter to MAX_ERROR_COUNT, the same
\* iteration sleeps ERROR_BACKOFF before anything else and resets the counter
\* to a value strictly between 0 and the maximum; Cooling happens only then,
\* and no cycle runs with the counter at the maximum.
\* ------------------------------------------------------------------------
C9_CoolingAtMaximum ==
    /\ (pc \in {"sleep", "wake"} /\ ~success /\ prev_count = MAX_ERROR_COUNT - 1) =>
           /\ sleeps # <<>> /\ sleeps[1] = ERROR_BACKOFF
           /\ 0 < error_count /\ error_count < MAX_ERROR_COUNT
    /\ (pc = "cooling" \/ ERROR_BACKOFF \in {sleeps[j] : j \in 1..Len(sleeps)}) =>
           /\ ~success
           /\ prev_count = MAX_ERROR_COUNT - 1
    /\ pc = "cooling" => error_count = MAX_ERROR_COUNT
    /\ (InCycle \/ pc \in {"idle", "update"}) => error_count < MAX_ERROR_COUNT

\* the iteration slept ERROR_BACKOFF and then the interval, counter reduced
C9_Witness ==
    /\ pc = "wake"
    /\ sleeps = <<ERROR_BACKOFF, CHECK_INTERVAL>>
    /\ error_count = Reduced

\* ------------------------------------------------------------------------
\* C10 (as claimed): a connection established during a cycle has had its
\* release attempted (close or logout) when the cycle ends, on every path.
\* ------------------------------------------------------------------------
C10_ReleasedOnEveryExit ==
    (pc = "ret" /\ Logged(Event("connect", 0, TRUE))) =>
        Where("close") \cup Where("logout") # {}

\* ------------------------------------------------------------------------
\* C11 (as claimed): a session is opened in the order transport, login,
\* select; search, fetch and mark-read are issued only after all three have
\* succeeded in the cycle, and a cycle in which one of the three failed
\* issues no search.
\* ------------------------------------------------------------------------
C11_OpenedBeforeUse ==
    /\ \A k \in Where("login") :
         \E c \in 1..(k - 1) : log[c] = Event("connect", 0, TRUE)
    /\ \A k \in Where("select") :
         \E l \in 1..(k - 1) : log[l] = Event("login", 0, TRUE)
    /\ \A k \in Where("search") \cup Where("fetch") \cup Where("store") :
         \E c, l, s \in 1..(k - 1) :
            /\ c < l /\ l < s
            /\ log[c] = Event("connect", 0, TRUE)
            /\ log[l] = Event("login", 0, TRUE)
            /\ log[s] = Event("select", 0, TRUE)
    /\ (\E op \in {"connect", "login", "select"} : Logged(Event(op, 0, FALSE))) =>
           Where("search") = {}

\* ------------------------------------------------------------------------
\* C12: when a message is dispatched, one POST is made to every configured
\* chat, in order, whatever the other chats answered, and send_to_telegram
\* reports success exactly when at least one chat answered 200; a message
\* without a code has no POST.
\* ------------------------------------------------------------------------
C12_EveryDestinationOnce ==
    pc = "store" =>
        IF email_info.code # None
        THEN /\ last_send.attempted = chat_ids
             /\ last_send.success_count = Cardinality(last_send.accepted)
             /\ log[Len(log)] = Event("send", Batch[idx], last_send.accepted # {})
        ELSE last_send = NoSend

\* the first chat did not answer 200, the last one did: the dispatch counts
C12_Witness ==
    /\ pc = "store"
    /\ NumChats > 1
    /\ last_send.attempted = chat_ids
    /\ last_send.accepted = {NumChats}
    /\ log[Len(log)].op = "send" /\ log[Len(log)].ok

\* ------------------------------------------------------------------------
\* C13: the ids fetched in a cycle are the last min(FETCH_LIMIT, n) of the n
\* ids the search listed, in listed order and each at most once; the listing
\* holds unseen ids, oldest first; no operation touches an older listed id;
\* a cycle that runs its loop to the end has fetched all of them.
\* ------------------------------------------------------------------------
C13_Expected ==
    LET n == Len(email_ids)
        m == IF n < FETCH_LIMIT THEN n ELSE FETCH_LIMIT
    IN  [j \in 1..m |-> email_ids[n - m + j]]

C13_Fetched ==
    LET fetches == SelectSeq(log, LAMBDA e : e.op = "fetch")
    IN  [j \in 1..Len(fetches) |-> fetches[j].id]

C14_FetchErrorContained ==
    /\ \A k \in Where("fetch") :
         ~log[k].ok =>
             At("extract", log[k].id) \cup At("send", log[k].id)
                 \cup At("store", log[k].id) = {}
    /\ (pc = "ret" /\ email_ids # <<>> /\ \A k \in Where("store") : log[k].ok) =>
           /\ result
           /\ Cardinality(Where("fetch")) =
                  (IF Len(email_ids) < FETCH_LIMIT THEN Len(email_ids) ELSE FETCH_LIMIT)

\* a fetch failed, a later message of the batch was evaluated, and the cycle
\* returns True
C14_Witness ==
    /\ pc = "ret"
    /\ result
    /\ \E k \in Where("fetch") :
         /\ ~log[k].ok
         /\ \E j \in Where("extract") : j > k

\* ------------------------------------------------------------------------
\* C15: a failed cycle does not end the poll loop.  The step of run that
\* follows a failed check_emails changes the counter, by one, and nothing
\* else of the loop's state; the loop never leaves its cycle, and with the
\* main thread running every failed cycle is followed by the start of
\* another one.
\* ------------------------------------------------------------------------
C15_LoopSurvivesFailure ==
    /\ [][(pc = "update" /\ ~success) =>
            /\ error_count' = error_count + 1
            /\ pc' = "check"
            /\ UNCHANGED <<success, sleeps, nmsgs, seen, cycle_vars>>]_vars
    /\ [](pc # "done")
    /\ (pc = "update" /\ ~success) ~> (pc = "connect")

\* a cycle starts with four failed cycles counted
C15_Witness ==
    /\ pc = "connect"
    /\ error_count = MAX_ERROR_COUNT - 1

\* ------------------------------------------------------------------------
\* C16 (as claimed): an interrupt delivered during a cycle is still
\* propagating when check_emails is left, so that run breaks instead of
\* starting another cycle; run ends only by an interrupt, and if the session
\* had been opened its release has been attempted by then.
\* ------------------------------------------------------------------------
C16_InterruptExits ==
    /\ (pc = "ret" /\ Where("interrupt") # {}) => Pending
    /\ pc = "done" => Pending
    /\ (pc = "done" /\ Where("select") # {} /\ ~Logged(Event("select", 0, FALSE))) =>
           Where("close") # {}

\* ------------------------------------------------------------------------
\* C17 (as claimed): extract_verification_code never returns "123456" nor a
\* string of identical digits such as "000000" or "1111".
\* ------------------------------------------------------------------------
C17_Placeholder(c) ==
    /\ c # None
    /\ \/ c = <<"1", "2", "3", "4", "5", "6">>
       \/ \A j \in 1..Len(c) : c[j] = c[1]

C17_NoPlaceholder ==
    pc = "extracted" => ~C17_Placeholder(ret_code)

\* ------------------------------------------------------------------------
\* C18: what extract_verification_code returns is None or a string of 4 to
\* 8 characters that are all digits, for every text.
\* ------------------------------------------------------------------------
C18_DigitsLength4to8 ==
    pc = "extracted" =>
        \/ ret_code = None
        \/ /\ 4 <= Len(ret_code) /\ Len(ret_code) <= 8
           /\ \A j \in 1..Len(ret_code) : ret_code[j] \in Digits

\* a labelled run of nine digits: the first eight are returned
C18_Witness ==
    /\ pc = "extracted"
    /\ Len(ret_code) = 8
    /\ \E i \in 1..Len(arg_text) :
         /\ DigitRun(arg_text, i) = 9
         /\ i > 1 /\ ~IsDigit(arg_text[i - 1])

\* ------------------------------------------------------------------------
\* C19 (as claimed): every field of the metrics record is written by the
\* main thread only; the health server thread only reads.
\* ------------------------------------------------------------------------
C19_OnlyMainWrites ==
    \A f \in DOMAIN writers : writers[f] \subseteq {"main"}

\* ------------------------------------------------------------------------
\* C20 (as claimed): when a label-anchored rule (rules 1 to 3) has an
\* accepted match in the unsanitized text, the first such match is what
\* extract_verification_code returns.
\* ------------------------------------------------------------------------
C20_LabelHitWins ==
    pc = "extracted" =>
        LET label == FirstAccepted(<<1, 2, 3>>, Prefix(arg_text, 1000))
        IN  label # None => ret_code = label

\* ------------------------------------------------------------------------
\* C21: mark-read raising after a successful forward
\* ------------------------------------------------------------------------
\* positions of the log at which mark-read raised for a message that had
\* been forwarded in this cycle
ForwardedThenFailed ==
    {k \in Where("store") : ~log[k].ok /\ Logged(Event("send", log[k].id, TRUE))}

\* the ids the search of this cycle listed
Listed == {email_ids[k] : k \in 1..Len(email_ids)}

\* events of the log that concern message id
About(id) == {k \in 1..Len(log) : log[k].id = id}

\* in the cycle where mark-read raised after a forward: the message stays
\* unseen, the rest of the batch is untouched, the finally block runs
\* imap.close(), and the update after the cycle increments the counter
FailingCycleAborted ==
    \A k \in ForwardedThenFailed :
        /\ log[k].id = Batch[idx]
        /\ log[k].id \notin seen
        /\ log[k].id \in unacked
        /\ ~result
        /\ pc \in {"close", "logout", "ret"}
        /\ \A j \in (k + 1)..Len(log) : log[j].op \in {"close", "logout"}
        /\ \A j \in (idx + 1)..Len(Batch) :
               /\ About(Batch[j]) = {}
               /\ Batch[j] \notin seen
        /\ pc = "ret" =>
               /\ Where("close") # {}
               /\ (Logged(Event("close", 0, TRUE)) => Where("logout") # {})
               /\ Counted(error_count, result) = error_count + 1

HasCooled == \E j \in 1..Len(sleeps) : sleeps[j] = ERROR_BACKOFF

\* after Cooling the counter is 2; Cooling is never entered in an iteration
\* whose cycle succeeded, nor in the iteration after one that cooled
CoolingSpacing ==
    /\ (pc \in {"sleep", "wake"} /\ HasCooled) => error_count = 2
    /\ pc = "cooling" =>
           /\ ~success
           /\ ~since.last_cooled

\* C22 (as claimed): after Cooling the counter is 2, and Cooling is entered
\* again only when the failed cycles since then outnumber the successful
\* ones by at least three; never in an iteration whose cycle succeeded, and
\* never in two consecutive iterations.
C22_ThreeMoreFailuresThanSuccesses ==
    /\ CoolingSpacing
    /\ (pc = "cooling" /\ since.cooled) => since.failed - since.succeeded >= 3

\* C22 (amended): after Cooling the counter is 2, and Cooling is entered
\* again only after at least three further failed cycles, exactly three
\* more than the successful cycles that decremented the counter (a success
\* with the counter at 0 cancels no failure); never in an iteration whose
\* cycle succeeded, and never in two consecutive iterations.
C22_ThreeMoreFailuresThanDecrements ==
    /\ CoolingSpacing
    /\ (pc = "cooling" /\ since.cooled) =>
           /\ since.failed >= 3
           /\ since.failed - (since.succeeded - since.floored) = 3
    /\ since.cooled =>
           error_count = IF pc \in {"sleep", "wake"} /\ HasCooled
                         THEN 2
                         ELSE 2 + since.failed - (since.succeeded - since.floored)

\* Cooling is entered a second time after successes took the counter from
\* 2 to 0 and one more success left it there
C22_Witness ==
    /\ pc = "cooling"
    /\ since.cooled
    /\ since.floored >= 1
    /\ since.succeeded = 3

\* ------------------------------------------------------------------------
\* C23: the backlog is drained once the failures cease
\* ------------------------------------------------------------------------
\* every message of the mailbox carries the \Seen flag
Drained == seen = 1..nmsgs

\* C23: if no new mail arrives and from some point on every connect,
\* search, fetch and mark-read succeeds, then with the poll loop scheduled
\* fairly every unseen message of the backlog is eventually evaluated and
\* marked read, at most FETCH_LIMIT per cycle; after that every cycle finds
\* no unseen mail, and the error counter eventually reaches 0 and stays 0.
C23_BacklogDrained ==
    /\ recovered ~> [](Drained /\ error_count = 0)
    /\ [](Cardinality({k \in Where("store") : log[k].ok}) <= FETCH_LIMIT)
    /\ [][ /\ \A id \in seen' \ seen : At("extract", id) # {} /\ pc = "store"
           /\ (recovered /\ Drained) => Drained'
           /\ (recovered /\ Drained /\ pc = "search" /\ imap = "SELECTED") =>
                  /\ pc' = "close"
                  /\ result'
                  /\ email_ids' = <<>> ]_vars

\* a backlog longer than one batch was unseen at the recovery and has been
\* drained since, and a successful cycle has taken the counter from 1 to 0
C23_Witness ==
    /\ recovered
    /\ recovery.unseen > FETCH_LIMIT
    /\ Drained
    /\ nmsgs > FETCH_LIMIT
    /\ pc = "sleep"
    /\ success
    /\ prev_count = 1
    /\ error_count = 0

====
